---------------------------- MODULE Spec2Model ----------------------------
(***************************************************************************)
(* A model of megatron's Pipeline (src/megatron/pipeline.py): construction *)
(* of the path over a node graph, the fit / partial_fit / transform /      *)
(* evaluate passes with reclamation of node outputs, the generator-driven  *)
(* calls (fit_generator, transform_generator, evaluate_generator), and     *)
(* save / load.                                                            *)
(*                                                                         *)
(* pipeline.py is modelled from its source.  The node classes              *)
(* (megatron/nodes/core.py) and utils.pipeline.topsort are not part of the *)
(* sources at hand; their operations (load, fit, partial_fit, transform,   *)
(* evaluate, clean_inbounds, topsort) are modelled from the written        *)
(* specification and are marked so where they are defined.                 *)
(***************************************************************************)
EXTENDS Integers, Sequences, FiniteSets, TLC

VARIABLES
    role,             \* node -> "Input" | "Transformation" | "Keras" | "Metric"
    inbound,          \* node -> sequence of its inbound nodes
    is_default_name,  \* node -> TRUE when the node's name was auto-generated
    status,           \* "defining" | "built" | "DisconnectedError"
    inputs,           \* Pipeline.inputs
    outputs,          \* Pipeline.outputs
    path,             \* Pipeline.path
    nodes,            \* Pipeline.nodes: the path split by type, and the metrics
    storage,          \* TRUE when a storage collaborator is attached
    output,           \* node -> its output slot (None when empty)
    has_run,          \* node -> its has_run flag
    learned,          \* node -> its learned (fit) state
    pc,               \* "idle" | "exec" | "metrics" | "fitgen" | "spin" | "yield"
    op,               \* the pass that runs, or ran last
    idx,              \* position in nodes.transformation of the next step
    keep_data,        \* transform's keep_data argument
    input_data,       \* the mapping handed to the pass
    index,            \* transform's index_field: "none", or the shape of the index
    outcome,          \* how the last pass ended ("none" while one runs)
    result,           \* what the last transform / evaluate returned
    pending,          \* metric nodes evaluate has still to run
    writes,           \* storage.write calls made by the current pass
    ran,              \* history: nodes whose step was entered in the current pass, in order
    produced,         \* history: node -> what its step produced in the current pass
    memo,             \* history: input mapping -> result of the last completed
                      \*   transform of that mapping since the fit state changed
    passes,           \* number of passes started
    artifact,         \* the record written by the last save()
    loaded,           \* what the last load_pipeline() returned
    input_generator,  \* number of batches the generator handed to a call still holds
    steps,            \* steps_per_epoch of fit_generator, steps of the other two
    epochs,           \* epochs of fit_generator
    enum_i,           \* i, the counter of enumerate(input_generator)
    log,              \* history of the current generator call: batches pulled,
                      \*   results yielded, fit calls per node, and what was
                      \*   loaded and transformed for the last batch
    before,           \* history: the nodes' state when the current pass began
    seen              \* history: the mappings handed to the partial_fit calls,
                      \*   while those are the only passes made and no wrapped
                      \*   transformation raised

graphVars == <<role, inbound, is_default_name>>
pipeVars  == <<status, inputs, outputs, path, nodes, storage>>
nodeVars  == <<output, has_run, learned>>
passVars  == <<pc, op, idx, keep_data, input_data, index, outcome, result, pending,
               writes, ran, produced, memo, passes>>
saveVars  == <<artifact, loaded>>
genVars   == <<input_generator, steps, epochs, enum_i, log>>
vars == <<graphVars, pipeVars, nodeVars, passVars, saveVars, genVars, before, seen>>

---------------------------------------------------------------------------
(* Bounds of the model *)

\* most nodes a graph defined step by step may have (SpecBuild)
MaxNodes == 4
\* most inbound nodes given to a node defined step by step (SpecBuild)
MaxInbound == 2
\* most declared outputs of a Pipeline built over such a graph (SpecBuild)
MaxOutputs == 2
\* the rows of the input arrays are drawn from 1..MaxData; a batch is an
\* array of one row, and arrays of more rows arise by concatenation
MaxData == 1
\* the rows of node outputs, and learned state, are numbers modulo Modulus
Modulus == 5
\* most calls (passes, save, load_pipeline) made on one Pipeline
MaxPasses == 2
\* most batches an input generator holds
MaxBatches == 3
\* largest steps_per_epoch / steps argument of the generator calls
MaxSteps == 1

\* fit_generator(input_generator, steps_per_epoch, epochs=1)
DefaultEpochs == 1

\* the empty output slot (Python's None); an array is a non-empty sequence
\* of rows
None == <<>>

---------------------------------------------------------------------------
(* Helpers on sequences *)

Range(s) == {s[i] : i \in DOMAIN s}

IndexOf(s, x) == CHOOSE i \in DOMAIN s : s[i] = x

NoDuplicates(s) == \A i, j \in DOMAIN s : s[i] = s[j] => i = j

RECURSIVE SeqOfSet(_)
\* the elements of a set of numbers, ascending
SeqOfSet(S) ==
    IF S = {} THEN <<>>
    ELSE LET m == CHOOSE x \in S : \A y \in S : x <= y
         IN <<m>> \o SeqOfSet(S \ {m})

Nodes == DOMAIN role

\* Node.outbound_nodes: the nodes that list n among their inbound nodes
OutboundOf(inb, n) == {m \in DOMAIN inb : n \in Range(inb[m])}

outbound_nodes(n) == OutboundOf(inbound, n)

IsTransformation(r) == r \in {"Transformation", "Keras"}


---------------------------------------------------------------------------
(* Graph Builder *)

RECURSIVE visit(_, _, _), visit_all(_, _, _)
\* utils.pipeline.topsort, one node: the node's dependencies first, in the
\* order of its inbound nodes, then the node; a node met again is skipped
visit(inb, n, acc) ==
    IF n \in Range(acc) THEN acc
    ELSE Append(visit_all(inb, inb[n], acc), n)

visit_all(inb, ns, acc) ==
    IF ns = <<>> THEN acc
    ELSE visit_all(inb, Tail(ns), visit(inb, Head(ns), acc))

\* utils.pipeline.topsort(outputs)
topsort(inb, outs) == visit_all(inb, outs, <<>>)

\* a plausible slip: consumers first
PathReversed(inb, outs) ==
    LET p == topsort(inb, outs)
    IN [i \in 1..Len(p) |-> p[Len(p) + 1 - i]]

\* Pipeline.__init__: self.path = utils.pipeline.topsort(self.outputs)
PathOf(inb, outs) == topsort(inb, outs)

\* Pipeline._split_path: the nodes of self.path by type.  The comprehension
\* iterates self.path, not the path argument.
split_path(roles, self_path, path_arg) ==
    [transformation |-> SelectSeq(self_path, LAMBDA n : IsTransformation(roles[n])),
     input          |-> SelectSeq(self_path, LAMBDA n : roles[n] = "Input"),
     keras          |-> SelectSeq(self_path, LAMBDA n : roles[n] = "Keras")]

\* Pipeline._get_metric_nodes: the Metric nodes among the outbound nodes of
\* the path's nodes (a set in the code; its list order is not used here)
get_metric_nodes(roles, inb, p) ==
    UNION {{m \in OutboundOf(inb, n) : roles[m] = "Metric"} : n \in Range(p)}

\* Pipeline.__init__: missing_inputs, as the code computes it
missing_inputs(p, ins) == (Range(p) \cap Range(ins)) \ Range(ins)

\* Pipeline.__init__: extra_inputs, as the code computes it (a warning only)
extra_inputs(p, ins) == (Range(p) \cap Range(ins)) \ Range(p)

NoLoad == [status |-> "none"]

\* no pass was made yet
NoneSeen == [valid |-> TRUE, batches |-> <<>>]

\* no generator call was made yet
NoLog == [pulled |-> 0, yielded |-> 0, fits |-> <<>>, node |-> 0,
          loaded |-> <<>>, transformed |-> <<>>]

\* Pipeline.__init__(inputs, outputs, name, version, storage)
Construct(ins, outs, stor) ==
    /\ status = "defining"
    /\ LET p == PathOf(inbound, outs)
       IN /\ inputs' = ins
          /\ outputs' = outs
          /\ path' = p
          /\ nodes' = [transformation |-> split_path(role, p, p).transformation,
                       input |-> split_path(role, p, p).input,
                       keras |-> split_path(role, p, p).keras,
                       metric |-> get_metric_nodes(role, inbound, p)]
          /\ IF missing_inputs(p, ins) # {}
             THEN /\ status' = "DisconnectedError"
                  /\ storage' = FALSE
             ELSE /\ status' = "built"
                  /\ storage' = stor
    /\ UNCHANGED <<graphVars, nodeVars, passVars, saveVars, genVars, before, seen>>

---------------------------------------------------------------------------
(* Node operations.  A node's state is read from and written to a record   *)
(* h = [output, has_run, learned], so that the same operations serve the   *)
(* live Pipeline and one returned by load_pipeline.                        *)

Heap == [output |-> output, has_run |-> has_run, learned |-> learned]

RECURSIVE SumSeq(_)
SumSeq(s) == IF s = <<>> THEN 0 ELSE Head(s) + SumSeq(Tail(s))

\* [node.output for node in self.inbound_nodes]
inbound_outputs(inb, h, n) == [i \in 1..Len(inb[n]) |-> h.output[inb[n][i]]]

\* every inbound node of n holds an output
Populated(inb, h, n) == \A j \in Range(inb[n]) : h.output[j] # None

\* InputNode.load: the data becomes the node's output, and has_run is set
load(h, n, v) == [h EXCEPT !.output[n] = v, !.has_run[n] = TRUE]

\* row i of each inbound output
row(inb, h, n, i) == [j \in 1..Len(inb[n]) |-> h.output[inb[n][j]][i]]

\* the transformation a node wraps: row by row, a deterministic function of
\* the inbound outputs and the node's learned state
apply(inb, h, n) ==
    [i \in 1..Len(h.output[inb[n][1]]) |->
        (SumSeq(row(inb, h, n, i)) + h.learned[n] + 1) % Modulus]

\* the summary a node learns from: the sum of all rows of its inbound outputs
summary(inb, h, n) ==
    SumSeq([j \in 1..Len(inb[n]) |-> SumSeq(inbound_outputs(inb, h, n)[j])]) % Modulus

\* TransformationNode.fit: the learned state is overwritten by the summary
\* of the inbound outputs
fit_node(inb, h, n) == [h EXCEPT !.learned[n] = summary(inb, h, n)]

\* TransformationNode.partial_fit: the summary of the inbound outputs is
\* added to the learned state
partial_fit_node(inb, h, n) ==
    [h EXCEPT !.learned[n] = (@ + summary(inb, h, n)) % Modulus]

\* TransformationNode.transform / MetricNode.evaluate: the node's output is
\* computed from its inbound outputs, and has_run is set
transform_node(inb, h, n) ==
    [h EXCEPT !.output[n] = apply(inb, h, n), !.has_run[n] = TRUE]

\* a plausible slip: reclamation that forgets the declared outputs
CleanAlsoOutputs(inb, h, n, outs) ==
    [h EXCEPT !.output = [j \in DOMAIN h.output |->
        IF /\ j \in Range(inb[n])
           /\ \A m \in OutboundOf(inb, j) : h.has_run[m]
        THEN None ELSE h.output[j]]]

\* TransformationNode.clean_inbounds: an inbound node whose outbound nodes
\* have all run is emptied, unless it is a declared output
clean_inbounds(inb, h, n, outs) ==
    [h EXCEPT !.output = [j \in DOMAIN h.output |->
        IF /\ j \in Range(inb[n])
           /\ \A m \in OutboundOf(inb, j) : h.has_run[m]
           /\ j \notin Range(outs)
        THEN None ELSE h.output[j]]]

RECURSIVE load_inputs(_, _, _)
\* Pipeline._load_inputs: node.load(input_data[node.name]) for each node in
\* turn; a name missing from the mapping raises KeyError there and then
load_inputs(h, data, ns) ==
    IF ns = <<>> THEN [heap |-> h, error |-> "none"]
    ELSE IF Head(ns) \notin DOMAIN data THEN [heap |-> h, error |-> "KeyError"]
    ELSE load_inputs(load(h, Head(ns), data[Head(ns)]), data, Tail(ns))

\* a plausible slip: the loop reclaims without regard to the declared outputs
LoopBodyCleansOutputs(inb, h, n, o, keep, outs) ==
    LET fitted == IF o = "fit" THEN fit_node(inb, h, n)
                  ELSE IF o = "partial_fit" THEN partial_fit_node(inb, h, n)
                  ELSE h
        done   == transform_node(inb, fitted, n)
    IN IF o = "transform" /\ keep THEN done
       ELSE CleanAlsoOutputs(inb, done, n, outs)

\* a plausible slip: the keep_data test the wrong way round
LoopBodyCleansWhenKeeping(inb, h, n, o, keep, outs) ==
    LET fitted == IF o = "fit" THEN fit_node(inb, h, n)
                  ELSE IF o = "partial_fit" THEN partial_fit_node(inb, h, n)
                  ELSE h
        done   == transform_node(inb, fitted, n)
    IN IF o = "transform" /\ ~keep THEN done
       ELSE clean_inbounds(inb, done, n, outs)

\* the body of the loop over self.nodes['transformation'] for node n:
\*   fit:         node.fit();         node.transform(); node.clean_inbounds()
\*   partial_fit: node.partial_fit(); node.transform(); node.clean_inbounds()
\*   transform:   node.transform(); if not keep_data: node.clean_inbounds()
\*   evaluate:    node.transform(); node.clean_inbounds()
loop_body(inb, h, n, o, keep, outs) ==
    LET fitted == IF o = "fit" THEN fit_node(inb, h, n)
                  ELSE IF o = "partial_fit" THEN partial_fit_node(inb, h, n)
                  ELSE h
        done   == transform_node(inb, fitted, n)
    IN IF o = "transform" /\ keep THEN done
       ELSE clean_inbounds(inb, done, n, outs)

\* Pipeline.transform: output_data = [node.output for node in self.outputs]
output_data(h, outs) == [i \in 1..Len(outs) |-> h.output[outs[i]]]

\* a plausible slip: one write for each declared output
WriteEachOutput(o, stor, outs, w) ==
    IF o = "transform" /\ stor THEN w + Len(outs) ELSE w

\* Pipeline.transform: if self.storage: self.storage.write(output_data,
\* data_index), counted in w
storage_write(o, stor, outs, w) ==
    IF o = "transform" /\ stor THEN w + 1 ELSE w

---------------------------------------------------------------------------
(* Graph definition: nodes are created one by one, each over nodes that     *)
(* exist already, so the graph is acyclic by construction.                  *)

\* the sequences of exactly k distinct elements of S
DistinctSeqs(S, k) == {s \in [1..k -> S] : NoDuplicates(s)}

\* the sequences of 1..k distinct elements of S
NonEmptyDistinctSeqs(S, k) == UNION {DistinctSeqs(S, j) : j \in 1..k}

\* Node.__init__: a new node with the given role, inbound nodes and name flag
NewNode(r, inb, dflt) ==
    /\ role' = Append(role, r)
    /\ inbound' = Append(inbound, inb)
    /\ is_default_name' = Append(is_default_name, dflt)
    /\ output' = Append(output, None)
    /\ has_run' = Append(has_run, FALSE)
    /\ learned' = Append(learned, 0)

\* Input(name)
AddInput ==
    /\ status = "defining"
    /\ Len(role) < MaxNodes
    /\ NewNode("Input", <<>>, FALSE)
    /\ UNCHANGED <<pipeVars, passVars, saveVars, genVars, before, seen>>

\* a Transformation applied to nodes that exist
AddTransformation ==
    /\ status = "defining"
    /\ Len(role) < MaxNodes
    /\ \E inb \in NonEmptyDistinctSeqs({n \in Nodes : role[n] # "Metric"}, MaxInbound) :
           NewNode("Transformation", inb, FALSE)
    /\ UNCHANGED <<pipeVars, passVars, saveVars, genVars, before, seen>>

\* the declared outputs tried: every set of 1..MaxOutputs nodes, listed in
\* the order the nodes were defined and in the reverse order
OutputChoices ==
    LET sets == {S \in SUBSET Nodes : S # {} /\ Cardinality(S) <= MaxOutputs}
    IN {SeqOfSet(S) : S \in sets} \cup
       {[i \in 1..Cardinality(S) |-> SeqOfSet(S)[Cardinality(S) + 1 - i]] : S \in sets}

\* Pipeline(inputs, outputs) over the graph defined so far, with every
\* Input node declared
BuildAny ==
    /\ Len(role) > 0
    /\ \E outs \in OutputChoices :
           Construct(SeqOfSet({n \in Nodes : role[n] = "Input"}), outs, FALSE)

InitEmpty ==
    /\ role = <<>> /\ inbound = <<>> /\ is_default_name = <<>>
    /\ status = "defining"
    /\ inputs = <<>> /\ outputs = <<>> /\ path = <<>>
    /\ nodes = [transformation |-> <<>>, input |-> <<>>, keras |-> <<>>, metric |-> {}]
    /\ storage = FALSE
    /\ output = <<>> /\ has_run = <<>> /\ learned = <<>>
    /\ pc = "idle" /\ op = "none" /\ idx = 0 /\ keep_data = FALSE
    /\ input_data = <<>> /\ index = "none" /\ outcome = "none" /\ result = <<>>
    /\ pending = {} /\ writes = 0 /\ ran = <<>> /\ produced = <<>>
    /\ memo = {} /\ passes = 0
    /\ artifact = NoLoad /\ loaded = NoLoad
    /\ input_generator = 0 /\ steps = 0 /\ epochs = 0 /\ enum_i = 0
    /\ log = NoLog /\ before = Heap /\ seen = NoneSeen

NextBuild == AddInput \/ AddTransformation \/ BuildAny

\* graph definition and Pipeline construction over any graph within the bounds
SpecBuild == InitEmpty /\ [][NextBuild]_vars


---------------------------------------------------------------------------
(* Execution Scheduler: the passes of the live Pipeline, one step per node *)

Idle == status = "built" /\ pc = "idle" /\ passes < MaxPasses

SetHeap(h) ==
    /\ output' = h.output
    /\ has_run' = h.has_run
    /\ learned' = h.learned

\* the arrays of one batch: one row each
Arrays == {<<v>> : v \in 1..MaxData}

\* the mappings a caller may hand to a pass: an array for every declared
\* input, or for all but one of them
InputMappings ==
    UNION {[Range(inputs) \ {drop} -> Arrays] : drop \in {0} \cup Range(inputs)}

\* the declared inputs _load_inputs loads before it stops
RECURSIVE loaded_prefix(_, _)
loaded_prefix(data, ns) ==
    IF ns = <<>> \/ Head(ns) \notin DOMAIN data THEN <<>>
    ELSE <<Head(ns)>> \o loaded_prefix(data, Tail(ns))

\* history: what a transform call was given and how it ended
Remember(key, oc, res) == memo \cup {<<key, <<oc, res>>>>}

\* the start of a pass, up to and including self._load_inputs(input_data);
\* early is the error raised before that, if any
Begin(o, data, ix, keep, early) ==
    LET li == load_inputs(Heap, data, inputs)
        oc == IF early # "none" THEN early ELSE li.error
    IN /\ op' = o
       /\ input_data' = data
       /\ index' = ix
       /\ keep_data' = keep
       /\ passes' = passes + 1
       /\ writes' = 0
       /\ result' = <<>>
       /\ pending' = {}
       /\ idx' = 1
       /\ IF early # "none" THEN UNCHANGED nodeVars ELSE SetHeap(li.heap)
       /\ ran' = IF early # "none" THEN <<>> ELSE loaded_prefix(data, inputs)
       /\ produced' = [n \in Nodes |->
                         IF early = "none" /\ n \in Range(loaded_prefix(data, inputs))
                         THEN data[n] ELSE None]
       /\ IF oc = "none"
          THEN /\ pc' = "exec"
               /\ outcome' = "none"
               /\ memo' = IF o \in {"fit", "partial_fit"} THEN {} ELSE memo
          ELSE /\ pc' = "idle"
               /\ outcome' = oc
               /\ memo' = IF o = "transform" THEN Remember(<<data, ix>>, oc, <<>>)
                          ELSE IF o \in {"fit", "partial_fit"} THEN {} ELSE memo
       /\ before' = Heap
       /\ seen' = IF o = "partial_fit" /\ oc = "none"
                  THEN [seen EXCEPT !.batches = Append(@, data)]
                  ELSE [seen EXCEPT !.valid = FALSE]
       /\ UNCHANGED <<graphVars, pipeVars, genVars, saveVars>>

\* Pipeline.fit(input_data)
Fit ==
    /\ Idle
    /\ \E data \in InputMappings : Begin("fit", data, "none", FALSE, "none")

\* Pipeline.partial_fit(input_data)
PartialFit ==
    /\ Idle
    /\ \E data \in InputMappings : Begin("partial_fit", data, "none", FALSE, "none")

\* Pipeline.transform(input_data, index_field, keep_data), up to the loop:
\* a multi-dimensional index raises ValueError; without index_field the
\* first array of the mapping is looked up, which raises IndexError when
\* the mapping is empty
Transform ==
    /\ Idle
    /\ \E data \in InputMappings, ix \in {"none", "1d", "2d"}, keep \in BOOLEAN :
         Begin("transform", data, ix, keep,
               IF ix = "2d" THEN "ValueError"
               ELSE IF ix = "none" /\ DOMAIN data = {} THEN "IndexError"
               ELSE "none")

\* Pipeline.evaluate(input_data)
Evaluate ==
    /\ Idle
    /\ \E data \in InputMappings : Begin("evaluate", data, "none", FALSE, "none")

\* the step of node n was entered and raised: the pass ends there.  oc is
\* "NodeError" when the node met an empty inbound output, "StepError" when
\* the wrapped transformation raised of its own accord
Abort(n, oc) ==
    /\ pc' = "idle"
    /\ outcome' = oc
    /\ result' = <<>>
    /\ memo' = IF op = "transform" /\ oc = "NodeError"
               THEN Remember(<<input_data, index>>, "NodeError", <<>>) ELSE memo
    /\ ran' = Append(ran, n)
    /\ seen' = IF oc = "StepError" THEN [seen EXCEPT !.valid = FALSE] ELSE seen
    /\ UNCHANGED <<graphVars, pipeVars, genVars, before, saveVars, nodeVars, op, idx,
                   keep_data, input_data, index, pending, writes, produced, passes>>

\* one turn of the loop over self.nodes['transformation'].  A node whose
\* inbound outputs are not all populated raises in its step; the wrapped
\* transformation may raise as well, before the node is changed.
Step ==
    /\ pc = "exec"
    /\ idx <= Len(nodes.transformation)
    /\ \E raises \in BOOLEAN :
       LET n == nodes.transformation[idx]
           h == loop_body(inbound, Heap, n, op, keep_data, outputs)
       IN IF ~Populated(inbound, Heap, n) THEN Abort(n, "NodeError")
          ELSE IF raises THEN Abort(n, "StepError")
          ELSE /\ SetHeap(h)
               /\ idx' = idx + 1
               /\ ran' = Append(ran, n)
               /\ produced' = [produced EXCEPT ![n] = h.output[n]]
               /\ UNCHANGED <<graphVars, pipeVars, genVars, before, seen, saveVars, pc, op, keep_data,
                              input_data, index, outcome, result, pending,
                              writes, memo, passes>>

\* after the loop: fit and partial_fit return; transform collects the
\* declared outputs, hands them to the storage collaborator if there is
\* one, and returns them; evaluate goes on to the Metric nodes
Return ==
    /\ pc = "exec"
    /\ idx > Len(nodes.transformation)
    /\ IF op = "evaluate"
       THEN /\ pc' = "metrics"
            /\ pending' = nodes.metric
            /\ UNCHANGED <<outcome, result, writes, memo>>
       ELSE /\ pc' = "idle"
            /\ outcome' = "ok"
            /\ result' = IF op = "transform" THEN output_data(Heap, outputs) ELSE <<>>
            /\ writes' = storage_write(op, storage, outputs, writes)
            /\ memo' = IF op = "transform"
                       THEN Remember(<<input_data, index>>, "ok",
                                     output_data(Heap, outputs))
                       ELSE memo
            /\ UNCHANGED pending
    /\ UNCHANGED <<graphVars, pipeVars, genVars, before, seen, saveVars, nodeVars, op, idx, keep_data,
                   input_data, index, ran, produced, passes>>

\* Pipeline.evaluate: node.evaluate() for one of self.nodes['metric'] (a
\* list made from a set: any order)
EvaluateMetric ==
    /\ pc = "metrics"
    /\ \E m \in pending :
         IF ~Populated(inbound, Heap, m) THEN Abort(m, "NodeError")
         ELSE LET h == transform_node(inbound, Heap, m)
              IN /\ SetHeap(h)
                 /\ pending' = pending \ {m}
                 /\ ran' = Append(ran, m)
                 /\ produced' = [produced EXCEPT ![m] = h.output[m]]
                 /\ UNCHANGED <<graphVars, pipeVars, genVars, before, seen, saveVars, pc, op, idx,
                                keep_data, input_data, index, outcome, result,
                                writes, memo, passes>>

\* Pipeline.evaluate: return {node.name: node.output for the metric nodes}
ReturnEvaluate ==
    /\ pc = "metrics"
    /\ pending = {}
    /\ pc' = "idle"
    /\ outcome' = "ok"
    /\ result' = [m \in nodes.metric |-> output[m]]
    /\ UNCHANGED <<graphVars, pipeVars, genVars, before, seen, saveVars, nodeVars, op, idx, keep_data,
                   input_data, index, pending, writes, ran, produced, memo, passes>>


---------------------------------------------------------------------------
(* Persistence *)

\* Pipeline.save: data[node] = node.output for the nodes of the path
side_table(h, p) == [n \in Range(p) |-> h.output[n]]

\* Pipeline.save: node.output = None for the nodes of the path
detach(h, p) ==
    [h EXCEPT !.output = [n \in DOMAIN h.output |->
                            IF n \in Range(p) THEN None ELSE h.output[n]]]

\* Pipeline.save: node.output = data[node] for the nodes of the path
reinsert(h, p, data) ==
    [h EXCEPT !.output = [n \in DOMAIN h.output |->
                            IF n \in Range(p) THEN data[n] ELSE h.output[n]]]

RECURSIVE referenced(_, _)
\* the node objects pickle.dump writes: those of the record, and every node
\* they refer to through inbound_nodes and outbound_nodes
referenced(inb, S) ==
    LET more == S \cup UNION {Range(inb[n]) \cup OutboundOf(inb, n) : n \in S}
    IN IF more = S THEN S ELSE referenced(inb, more)

\* Pipeline.save(save_dir)
Save ==
    /\ Idle
    /\ LET data     == side_table(Heap, path)
           detached == detach(Heap, path)
       IN /\ artifact' =
                [status |-> "saved",
                 inputs |-> inputs, path |-> path, outputs |-> outputs,
                 storage_info |-> storage,
                 objects |-> referenced(inbound,
                                Range(inputs) \cup Range(path) \cup Range(outputs)),
                 heap |-> detached,
                 before |-> Heap,
                 at |-> passes + 1]
          /\ SetHeap(reinsert(detached, path, data))
    /\ passes' = passes + 1
    /\ UNCHANGED <<graphVars, pipeVars, genVars, before, seen, loaded, pc, op, idx, keep_data, input_data,
                   index, outcome, result, pending, writes, ran, produced, memo>>

\* load_pipeline(filepath, storage_db): a Pipeline over the unpickled nodes.
\* With storage_db the stored bookkeeping fields are read from the record,
\* which holds them only when the saved Pipeline had a storage collaborator.
Load ==
    /\ Idle
    /\ artifact.status = "saved"
    /\ \E storage_db \in BOOLEAN :
         LET p == PathOf(inbound, artifact.outputs)
         IN loaded' =
              IF missing_inputs(p, artifact.inputs) # {}
              THEN [status |-> "DisconnectedError"]
              ELSE IF storage_db /\ ~artifact.storage_info
              THEN [status |-> "KeyError"]
              ELSE [status |-> "ok",
                    inputs |-> artifact.inputs,
                    outputs |-> artifact.outputs,
                    path |-> artifact.path,
                    nodes |-> [transformation |-> split_path(role, p, p).transformation,
                               input |-> split_path(role, p, p).input,
                               keras |-> split_path(role, p, p).keras,
                               metric |-> get_metric_nodes(role, inbound, p)],
                    storage |-> storage_db,
                    heap |-> artifact.heap]
    /\ passes' = passes + 1
    /\ UNCHANGED <<graphVars, pipeVars, genVars, before, seen, nodeVars, artifact, pc, op, idx, keep_data,
                   input_data, index, outcome, result, pending, writes, ran,
                   produced, memo>>

RECURSIVE sweep(_, _, _, _, _, _)
\* the loop over the Transformation nodes ns, run to its end or to the
\* first node whose step raises
sweep(inb, h, ns, o, keep, outs) ==
    IF ns = <<>> THEN [heap |-> h, error |-> "none"]
    ELSE IF ~Populated(inb, h, Head(ns)) THEN [heap |-> h, error |-> "NodeError"]
    ELSE sweep(inb, loop_body(inb, h, Head(ns), o, keep, outs), Tail(ns), o, keep, outs)

\* Pipeline.fit(data), run from node state h: the nodes' state it leaves,
\* and the error it ends on
run_fit(inb, h, ins, outs, ts, data) ==
    LET li == load_inputs(h, data, ins)
    IN IF li.error # "none" THEN li
       ELSE sweep(inb, li.heap, ts, "fit", FALSE, outs)

\* Pipeline.transform(data) without index_field, run from node state h on a
\* Pipeline with the given inputs, outputs and Transformation nodes: how it
\* ends and what it returns
run_transform(inb, h, ins, outs, ts, data) ==
    IF DOMAIN data = {} THEN <<"IndexError", <<>>>>
    ELSE LET li == load_inputs(h, data, ins)
         IN IF li.error # "none" THEN <<li.error, <<>>>>
            ELSE LET sw == sweep(inb, li.heap, ts, "transform", FALSE, outs)
                 IN IF sw.error # "none" THEN <<sw.error, <<>>>>
                    ELSE <<"ok", output_data(sw.heap, outs)>>

---------------------------------------------------------------------------
(* Generator-driven calls.  input_generator is a generator: every batch is  *)
(* handed out once, and what a batch holds is drawn when it is pulled.      *)

\* the batches a generator may yield: an array for every declared input and
\* for every Input node of the path
Batches == [Range(inputs) \cup Range(nodes.input) -> Arrays]

\* utils.pipeline.topsort(node)[:-1]
topsort_but_last(inb, n) ==
    LET p == topsort(inb, <<n>>) IN SubSeq(p, 1, Len(p) - 1)

RECURSIVE transform_all(_, _, _)
\* for node in ns: node.transform() (node.evaluate() for Metric nodes), to
\* the end or to the first node that meets an empty inbound output
transform_all(inb, h, ns) ==
    IF ns = <<>> THEN [heap |-> h, error |-> "none"]
    ELSE IF ~Populated(inb, h, Head(ns)) THEN [heap |-> h, error |-> "NodeError"]
    ELSE transform_all(inb, transform_node(inb, h, Head(ns)), Tail(ns))

\* _fit_generator_node / _generator, for one batch:
\*   self._load_inputs(batch, path_nodes['input'])
\*   for parent_node in path_nodes['transformation']: parent_node.transform()
feed(h, path_nodes, batch) ==
    LET li == load_inputs(h, batch, path_nodes.input)
    IN IF li.error # "none" THEN li
       ELSE transform_all(inbound, li.heap, path_nodes.transformation)

\* a plausible slip: the test lets two Keras nodes through
MoreThanTwoKeras(ns) == Len(ns.keras) > 2

\* fit_generator: len(self.nodes['keras']) > 1
too_many_keras(ns) == Len(ns.keras) > 1

\* the start of a generator call on a generator of g batches
BeginGenerator(o, g, st, ep) ==
    /\ op' = o
    /\ passes' = passes + 1
    /\ input_generator' = g
    /\ steps' = st
    /\ epochs' = ep
    /\ enum_i' = 0
    /\ idx' = 1
    /\ log' = [NoLog EXCEPT !.fits = [n \in Nodes |-> 0]]
    /\ ran' = <<>>
    /\ produced' = [n \in Nodes |-> None]
    /\ result' = <<>>
    /\ writes' = 0
    /\ pending' = {}
    /\ before' = Heap
    /\ seen' = [seen EXCEPT !.valid = FALSE]
    /\ UNCHANGED <<graphVars, pipeVars, saveVars, nodeVars, keep_data, input_data,
                   index>>

\* Pipeline.fit_generator(input_generator, steps_per_epoch, epochs), up to
\* the loop over self.nodes['transformation']
FitGenerator ==
    /\ Idle
    /\ \E g \in 0..MaxBatches, st \in 1..MaxSteps :
         BeginGenerator("fit_generator", g, st, DefaultEpochs)
    /\ IF too_many_keras(nodes)
       THEN pc' = "idle" /\ outcome' = "ValueError" /\ memo' = memo
       ELSE pc' = "fitgen" /\ outcome' = "none" /\ memo' = {}

\* the generator call ends on error oc
GeneratorRaises(oc) ==
    /\ pc' = "idle"
    /\ outcome' = oc
    /\ UNCHANGED <<idx, enum_i>>

\* the node fit_generator is at has had its batches: on to the next node
NextNode ==
    /\ idx' = idx + 1
    /\ enum_i' = 0
    /\ UNCHANGED <<pc, outcome>>

\* Pipeline._fit_generator_node(node, input_generator, steps_per_epoch,
\* epochs): one turn of the loop over enumerate(input_generator)
FitGeneratorNode ==
    /\ pc = "fitgen"
    /\ idx <= Len(nodes.transformation)
    /\ nodes.transformation[idx] \notin Range(nodes.keras)
    /\ LET node == nodes.transformation[idx]
           path_nodes == split_path(role, path, topsort_but_last(inbound, node))
       IN IF input_generator = 0
          THEN /\ NextNode
               /\ UNCHANGED <<nodeVars, input_generator, log>>
          ELSE \E batch \in Batches :
                 LET fed == feed(Heap, path_nodes, batch)
                 IN /\ input_generator' = input_generator - 1
                    /\ IF fed.error # "none"
                       THEN /\ SetHeap(fed.heap)
                            /\ log' = [log EXCEPT !.pulled = @ + 1]
                            /\ GeneratorRaises(fed.error)
                       ELSE /\ SetHeap(partial_fit_node(inbound, fed.heap, node))
                            /\ log' = [log EXCEPT !.pulled = @ + 1,
                                                  !.fits[node] = @ + 1,
                                                  !.node = node,
                                                  !.loaded = path_nodes.input,
                                                  !.transformed = path_nodes.transformation]
                            /\ IF enum_i = steps * epochs
                               THEN NextNode
                               ELSE /\ enum_i' = enum_i + 1
                                    /\ UNCHANGED <<idx, pc, outcome>>
    /\ UNCHANGED <<graphVars, pipeVars, saveVars, before, seen, op, keep_data, input_data,
                   index, result, pending, writes, ran, produced, memo, passes,
                   steps, epochs>>

\* Pipeline._fit_generator_keras(node, input_generator, steps_per_epoch,
\* epochs): the node's fit_generator takes steps_per_epoch * epochs batches
\* from _generator, fits the node on each, and returns.  _generator feeds
\* the path for every batch of input_generator inside "while True": once
\* input_generator is exhausted the inner loop ends at once, again and again,
\* and nothing is yielded any more.  For a Keras node enum_i counts the
\* batches its fit_generator has taken.
FitGeneratorKeras ==
    /\ pc = "fitgen"
    /\ idx <= Len(nodes.transformation)
    /\ nodes.transformation[idx] \in Range(nodes.keras)
    /\ LET node == nodes.transformation[idx]
           path_nodes == split_path(role, path, topsort_but_last(inbound, node))
       IN IF enum_i = steps * epochs
          THEN /\ NextNode
               /\ UNCHANGED <<nodeVars, input_generator, log>>
          ELSE IF input_generator = 0
          THEN /\ pc' = "spin"
               /\ UNCHANGED <<nodeVars, input_generator, log, idx, enum_i, outcome>>
          ELSE \E batch \in Batches :
                 LET fed == feed(Heap, path_nodes, batch)
                 IN /\ input_generator' = input_generator - 1
                    /\ IF fed.error # "none"
                       THEN /\ SetHeap(fed.heap)
                            /\ log' = [log EXCEPT !.pulled = @ + 1]
                            /\ GeneratorRaises(fed.error)
                       ELSE /\ SetHeap(partial_fit_node(inbound, fed.heap, node))
                            /\ log' = [log EXCEPT !.pulled = @ + 1,
                                                  !.yielded = @ + 1,
                                                  !.fits[node] = @ + 1,
                                                  !.node = node,
                                                  !.loaded = path_nodes.input,
                                                  !.transformed = path_nodes.transformation]
                            /\ enum_i' = enum_i + 1
                            /\ UNCHANGED <<idx, pc, outcome>>
    /\ UNCHANGED <<graphVars, pipeVars, saveVars, before, seen, op, keep_data, input_data,
                   index, result, pending, writes, ran, produced, memo, passes,
                   steps, epochs>>

\* _generator's "while True" turns over the exhausted input_generator
GeneratorSpins ==
    /\ pc = "spin"
    /\ UNCHANGED vars

\* fit_generator returns after the last Transformation node
FitGeneratorReturn ==
    /\ pc = "fitgen"
    /\ idx > Len(nodes.transformation)
    /\ pc' = "idle"
    /\ outcome' = "ok"
    /\ UNCHANGED <<graphVars, pipeVars, saveVars, nodeVars, genVars, before, seen, op, idx,
                   keep_data, input_data, index, result, pending, writes, ran,
                   produced, memo, passes>>

\* Pipeline.evaluate(data), run from node state h: the nodes' state it
\* leaves, and the error it ends on
run_evaluate(inb, h, ins, outs, ts, ms, data) ==
    LET li == load_inputs(h, data, ins)
    IN IF li.error # "none" THEN li
       ELSE LET sw == sweep(inb, li.heap, ts, "evaluate", FALSE, outs)
            IN IF sw.error # "none" THEN sw
               ELSE transform_all(inb, sw.heap, SeqOfSet(ms))

\* Pipeline.transform_generator(input_generator, steps, index): the call
\* returns a generator; nothing runs until a result is asked for
TransformGenerator ==
    /\ Idle
    /\ \E g \in 0..MaxBatches, st \in 1..MaxSteps :
         BeginGenerator("transform_generator", g, st, 0)
    /\ pc' = "yield"
    /\ outcome' = "none"
    /\ memo' = memo

\* Pipeline.evaluate_generator(input_generator, steps)
EvaluateGenerator ==
    /\ Idle
    /\ \E g \in 0..MaxBatches, st \in 1..MaxSteps :
         BeginGenerator("evaluate_generator", g, st, 0)
    /\ pc' = "yield"
    /\ outcome' = "none"
    /\ memo' = memo

\* the caller asks transform_generator's generator for its next result: one
\* turn of the loop over enumerate(input_generator).  "if i == steps:
\* StopIteration()" builds an exception and drops it; the call of
\* self.transform names out_type, which is defined nowhere: NameError.
NextTransformed ==
    /\ pc = "yield"
    /\ op = "transform_generator"
    /\ IF input_generator = 0
       THEN /\ pc' = "idle"
            /\ outcome' = "ok"
            /\ UNCHANGED <<input_generator, log>>
       ELSE /\ input_generator' = input_generator - 1
            /\ log' = [log EXCEPT !.pulled = @ + 1]
            /\ pc' = "idle"
            /\ outcome' = "NameError"
    /\ UNCHANGED <<graphVars, pipeVars, saveVars, nodeVars, before, seen, op, idx,
                   keep_data, input_data, index, result, pending, writes, ran,
                   produced, memo, passes, steps, epochs, enum_i>>

\* the caller asks evaluate_generator's generator for its next result: one
\* turn of the loop over enumerate(input_generator), with the same dropped
\* StopIteration(), then yield self.evaluate(batch)
NextEvaluated ==
    /\ pc = "yield"
    /\ op = "evaluate_generator"
    /\ IF input_generator = 0
       THEN /\ pc' = "idle"
            /\ outcome' = "ok"
            /\ UNCHANGED <<input_generator, log, nodeVars, enum_i, result>>
       ELSE \E batch \in Batches :
              LET ev == run_evaluate(inbound, Heap, inputs, outputs,
                                     nodes.transformation, nodes.metric, batch)
              IN /\ input_generator' = input_generator - 1
                 /\ SetHeap(ev.heap)
                 /\ IF ev.error # "none"
                    THEN /\ log' = [log EXCEPT !.pulled = @ + 1]
                         /\ pc' = "idle"
                         /\ outcome' = ev.error
                         /\ UNCHANGED <<enum_i, result>>
                    ELSE /\ log' = [log EXCEPT !.pulled = @ + 1, !.yielded = @ + 1]
                         /\ result' = [m \in nodes.metric |-> ev.heap.output[m]]
                         /\ enum_i' = enum_i + 1
                         /\ UNCHANGED <<pc, outcome>>
    /\ UNCHANGED <<graphVars, pipeVars, saveVars, before, seen, op, idx, keep_data,
                   input_data, index, pending, writes, ran, produced, memo, passes,
                   steps, epochs>>

---------------------------------------------------------------------------
(* The graphs and Pipelines the passes are run on *)

\* Input x; a = f(x); b = g(x); c = h(a, b); Metric m over b
Diamond ==
    [role |-> <<"Input", "Transformation", "Transformation", "Transformation", "Metric">>,
     inbound |-> << <<>>, <<1>>, <<1>>, <<2, 3>>, <<3>> >>,
     is_default_name |-> <<FALSE, TRUE, TRUE, FALSE, FALSE>>]

\* Inputs x and y; a = f(x); b = g(a, y)
TwoOutputs ==
    [role |-> <<"Input", "Input", "Transformation", "Transformation">>,
     inbound |-> << <<>>, <<>>, <<1>>, <<3, 2>> >>,
     is_default_name |-> <<FALSE, FALSE, FALSE, FALSE>>]

\* Input x; a = f(x); b = g(a), named; z = k(a), with a default name
Chain ==
    [role |-> <<"Input", "Transformation", "Transformation", "Transformation">>,
     inbound |-> << <<>>, <<1>>, <<2>>, <<2>> >>,
     is_default_name |-> <<FALSE, TRUE, FALSE, TRUE>>]

\* Input x; a = f(x); b = g(a); Metric m over a
Scored ==
    [role |-> <<"Input", "Transformation", "Transformation", "Metric">>,
     inbound |-> << <<>>, <<1>>, <<2>>, <<2>> >>,
     is_default_name |-> <<FALSE, TRUE, FALSE, FALSE>>]

\* Input x; a = f(x); Keras k over a
OneKeras ==
    [role |-> <<"Input", "Transformation", "Keras">>,
     inbound |-> << <<>>, <<1>>, <<2>> >>,
     is_default_name |-> <<FALSE, TRUE, FALSE>>]

\* Input x; Keras k over x; Keras l over k
TwoKeras ==
    [role |-> <<"Input", "Keras", "Keras">>,
     inbound |-> << <<>>, <<1>>, <<2>> >>,
     is_default_name |-> <<FALSE, TRUE, FALSE>>]

\* the Pipeline(inputs, outputs, storage) calls made over those graphs
Library ==
    {[graph |-> Diamond,    inputs |-> <<1>>,    outputs |-> <<4>>,    storage |-> FALSE],
     [graph |-> Scored,     inputs |-> <<1>>,    outputs |-> <<3>>,    storage |-> FALSE],
     [graph |-> OneKeras,   inputs |-> <<1>>,    outputs |-> <<3>>,    storage |-> FALSE],
     [graph |-> TwoKeras,   inputs |-> <<1>>,    outputs |-> <<3>>,    storage |-> FALSE],
     [graph |-> TwoOutputs, inputs |-> <<1, 2>>, outputs |-> <<3, 4>>, storage |-> TRUE],
     [graph |-> TwoOutputs, inputs |-> <<1>>,    outputs |-> <<3, 4>>, storage |-> FALSE],
     [graph |-> Chain,      inputs |-> <<1>>,    outputs |-> <<3>>,    storage |-> FALSE],
     [graph |-> Chain,      inputs |-> <<1>>,    outputs |-> <<4>>,    storage |-> TRUE]}

\* Pipeline(inputs, outputs, name, version, storage) over the graph defined
Build ==
    \E c \in Library :
        /\ role = c.graph.role
        /\ inbound = c.graph.inbound
        /\ Construct(c.inputs, c.outputs, c.storage)

Init ==
    /\ \E g \in {c.graph : c \in Library} :
         /\ role = g.role
         /\ inbound = g.inbound
         /\ is_default_name = g.is_default_name
         /\ output = [n \in DOMAIN g.role |-> None]
         /\ has_run = [n \in DOMAIN g.role |-> FALSE]
         /\ learned = [n \in DOMAIN g.role |-> 0]
         /\ produced = [n \in DOMAIN g.role |-> None]
    /\ status = "defining"
    /\ inputs = <<>> /\ outputs = <<>> /\ path = <<>>
    /\ nodes = [transformation |-> <<>>, input |-> <<>>, keras |-> <<>>, metric |-> {}]
    /\ storage = FALSE
    /\ pc = "idle" /\ op = "none" /\ idx = 0 /\ keep_data = FALSE
    /\ input_data = <<>> /\ index = "none" /\ outcome = "none" /\ result = <<>>
    /\ pending = {} /\ writes = 0 /\ ran = <<>>
    /\ memo = {} /\ passes = 0
    /\ artifact = NoLoad /\ loaded = NoLoad
    /\ input_generator = 0 /\ steps = 0 /\ epochs = 0 /\ enum_i = 0
    /\ log = NoLog /\ before = Heap /\ seen = NoneSeen

Next ==
    \/ Build
    \/ Fit
    \/ PartialFit
    \/ Transform
    \/ Evaluate
    \/ Step
    \/ Return
    \/ EvaluateMetric
    \/ ReturnEvaluate
    \/ Save
    \/ Load

\* the passes, save and load_pipeline on the Pipelines of the Library
Spec == Init /\ [][Next]_vars

NextGen ==
    \/ Build
    \/ FitGenerator
    \/ FitGeneratorNode
    \/ FitGeneratorKeras
    \/ GeneratorSpins
    \/ FitGeneratorReturn
    \/ TransformGenerator
    \/ EvaluateGenerator
    \/ NextTransformed
    \/ NextEvaluated

\* the generator-driven calls on the Pipelines of the Library
SpecGen == Init /\ [][NextGen]_vars


---------------------------------------------------------------------------
(* Properties *)

\* position of node n in the sequence s, 0 when it is not there
Position(s, n) == IF n \in Range(s) THEN IndexOf(s, n) ELSE 0

\* the nodes reachable backward from the nodes of S along inbound edges
RECURSIVE BackReach(_, _)
BackReach(inb, S) ==
    LET more == S \cup UNION {Range(inb[n]) : n \in S}
    IN IF more = S THEN S ELSE BackReach(inb, more)

\* a pass is under way or has ended on the built Pipeline
InPass == status = "built" /\ op # "none"

\* C1: in every pass each node's step is entered at most once, and a
\* Transformation node's step is entered only after every one of its inbound
\* nodes has executed (was loaded, or produced its output) in the same pass.
PathOrderInEveryPass ==
    InPass =>
      /\ NoDuplicates(ran)
      /\ \A i \in DOMAIN ran :
            IsTransformation(role[ran[i]]) =>
              \A j \in Range(inbound[ran[i]]) :
                 /\ Position(ran, j) # 0
                 /\ Position(ran, j) < i
                 /\ produced[j] # None

\* the same for the Pipelines whose path holds declared Input nodes only
PathOrderWhenInputsDeclared ==
    (\A n \in Range(path) : role[n] = "Input" => n \in Range(inputs))
       => PathOrderInEveryPass

\* C2: the path of a built Pipeline holds every node reachable backward
\* from the declared outputs exactly once, and every inbound node of a path
\* node stands before it in the path.
PathIsTopologicalOrder ==
    status = "built" =>
      /\ NoDuplicates(path)
      /\ Range(path) = BackReach(inbound, Range(outputs))
      /\ \A v \in Range(path) : \A u \in Range(inbound[v]) :
            Position(path, u) # 0 /\ Position(path, u) < Position(path, v)

\* C2's case: a Pipeline built over a node that two nodes of the path consume
PathWithSharedNode ==
    /\ status = "built"
    /\ \E u \in Range(path) :
          Cardinality(outbound_nodes(u) \cap Range(path)) >= 2


\* the Transformation nodes of the path that consume node j
Consumers(j) == outbound_nodes(j) \cap Range(nodes.transformation)

\* the nodes whose step the sweep of the current pass has still to enter
Ahead == {nodes.transformation[i] : i \in idx..Len(nodes.transformation)}

\* C3: while a pass runs, a node that executed in it and has two or more
\* consumers keeps its output until the last of those consumers has run.
SharedOutputSurvivesUntilLastConsumer ==
    (status = "built" /\ pc = "exec") =>
      \A j \in Range(ran) :
         (Cardinality(Consumers(j)) >= 2 /\ Consumers(j) \cap Ahead # {})
            => output[j] # None

TransformIsRepeatable ==
    \A p, q \in memo : p[1] = q[1] => p[2] = q[2]


\* C6: load_pipeline on a saved record returns a Pipeline, with the saved
\* path and learned state, whose transform returns for every input what the
\* saved Pipeline's transform returned when save was called.
SaveLoadRoundTrip ==
    (artifact.status = "saved" /\ loaded.status # "none") =>
      /\ loaded.status = "ok"
      /\ loaded.path = artifact.path
      /\ loaded.heap.learned = artifact.before.learned
      /\ \A data \in InputMappings :
            run_transform(inbound, loaded.heap, loaded.inputs, loaded.outputs,
                          loaded.nodes.transformation, data)
          = run_transform(inbound, artifact.before, inputs, outputs,
                          nodes.transformation, data)

\* the same whenever load_pipeline returned a Pipeline
SaveLoadRoundTripWhenLoaded ==
    loaded.status = "KeyError" \/ SaveLoadRoundTrip

\* no node object written by save holds an output
ArtifactHoldsNoData ==
    artifact.status = "saved" =>
      \A n \in artifact.objects : artifact.heap.output[n] = None

\* save leaves every node's output, has_run and learned state as they were
SaveLeavesNodesAlone == [][Save => UNCHANGED nodeVars]_vars

\* C7: the record save writes holds no node output, and when save returns
\* every node holds the output, has_run and learned state it held before.
SaveIsTransparent ==
    /\ ArtifactHoldsNoData
    /\ (artifact.status = "saved" /\ artifact.at = passes) => Heap = artifact.before

\* C8: a pass that ended on a missing input key loaded no Input node and
\* entered no node's step.
MissingKeyLeavesNoTrace ==
    (status = "built" /\ pc = "idle" /\ outcome = "KeyError") => ran = <<>>

\* C9: no Pipeline is built with a declared output that has a default name.
UnnamedOutputIsRejected ==
    status = "built" => \A o \in Range(outputs) : ~is_default_name[o]

\* C10: no Pipeline is built whose path holds an undeclared Input node.
DisconnectedInputIsRejected ==
    status = "built" =>
      \A n \in Range(path) : role[n] = "Input" => n \in Range(inputs)


\* a fit_generator call is under way or has ended on a Pipeline without
\* Keras nodes
OrdinaryFitGenerator ==
    status = "built" /\ op = "fit_generator" /\ nodes.keras = <<>>

\* C11: a fit_generator call over ordinary Transformation nodes pulls at
\* most steps_per_epoch * epochs batches in all, and when it has returned
\* every Transformation node has had one partial_fit call for each batch
\* pulled.
FitGeneratorPullsAtMostStepsBatches ==
    OrdinaryFitGenerator =>
      /\ log.pulled <= steps * epochs
      /\ (pc = "idle" /\ outcome = "ok") =>
            \A n \in Range(nodes.transformation) : log.fits[n] = log.pulled

\* C12: transform_generator and evaluate_generator pull at most steps
\* batches, however many the generator holds, and yield one result for each
\* batch pulled.
GeneratorsStopAfterSteps ==
    (status = "built" /\ op \in {"transform_generator", "evaluate_generator"}) =>
      /\ log.pulled <= steps
      /\ log.yielded = log.pulled

\* the same for evaluate_generator alone
EvaluateGeneratorStopsAfterSteps ==
    (status = "built" /\ op = "evaluate_generator") => log.pulled <= steps

\* C13: fit_generator on a Pipeline with more than one Keras node ends on
\* ValueError at once: no batch is pulled and no node is loaded,
\* transformed or fit.
SeveralKerasNodesAreRejected ==
    (status = "built" /\ op = "fit_generator" /\ Len(nodes.keras) > 1) =>
      /\ pc = "idle"
      /\ outcome = "ValueError"
      /\ log.pulled = 0
      /\ log.node = 0
      /\ \A n \in Nodes : log.fits[n] = 0
      /\ Heap = before

\* C13's case: such a call was made with a generator that holds batches
SeveralKerasNodesAndBatches ==
    /\ status = "built" /\ op = "fit_generator" /\ Len(nodes.keras) > 1
    /\ outcome = "ValueError"
    /\ input_generator > 0

\* C14: a pass makes at most one storage write, and makes it only as a
\* transform pass that has run the step of every Transformation node of the
\* path and returned; a pass that ended on an error made none.
StorageWrittenOncePerCompletedPass ==
    status = "built" =>
      /\ writes <= 1
      /\ writes = 1 =>
            /\ op = "transform" /\ pc = "idle" /\ outcome = "ok"
            /\ \A n \in Range(nodes.transformation) :
                  n \in Range(ran) /\ produced[n] # None
      /\ (pc = "idle" /\ outcome \notin {"ok", "none"}) => writes = 0

\* C14's case: a transform pass on a Pipeline with storage wrote its outputs
StorageWritten ==
    /\ status = "built" /\ storage /\ op = "transform"
    /\ writes = 1

\* C14's other case: a transform pass on a Pipeline with storage ended in
\* a node's step, after an earlier node had run
TransformWithStorageAborted ==
    /\ status = "built" /\ storage /\ op = "transform"
    /\ pc = "idle" /\ outcome \in {"NodeError", "StepError"}
    /\ Len(ran) > Len(inputs) + 1

\* the nodes' state of a Pipeline on which no pass was made
Fresh ==
    [output |-> [n \in Nodes |-> None],
     has_run |-> [n \in Nodes |-> FALSE],
     learned |-> [n \in Nodes |-> 0]]

RECURSIVE Concatenation(_)
\* the mapping that holds, for every key, the arrays of the batches bs one
\* after the other
Concatenation(bs) ==
    IF Len(bs) = 1 THEN Head(bs)
    ELSE [k \in DOMAIN Head(bs) |-> Head(bs)[k] \o Concatenation(Tail(bs))[k]]

\* C15: after partial_fit calls over a sequence of batches every
\* Transformation node holds the learned state that one fit call over the
\* concatenation of the batches gives it.
PartialFitEqualsFitOnConcatenation ==
    (status = "built" /\ pc = "idle" /\ seen.valid /\ seen.batches # <<>>) =>
      \A n \in Range(nodes.transformation) :
         learned[n] = run_fit(inbound, Fresh, inputs, outputs, nodes.transformation,
                              Concatenation(seen.batches)).heap.learned[n]

\* the same for the partial_fit calls that all returned, and the nodes
\* fed by Input nodes alone
PartialFitEqualsFitNextToInputs ==
    (status = "built" /\ pc = "idle" /\ seen.valid /\ seen.batches # <<>>) =>
      \A n \in Range(nodes.transformation) :
         (\A j \in Range(inbound[n]) : role[j] = "Input") =>
            learned[n] = run_fit(inbound, Fresh, inputs, outputs,
                                 nodes.transformation,
                                 Concatenation(seen.batches)).heap.learned[n]

\* a transform or evaluate pass has ended in a node's step
PassAborted ==
    /\ status = "built" /\ pc = "idle"
    /\ op \in {"transform", "evaluate"}
    /\ outcome \in {"NodeError", "StepError"}

\* C16: when a node's step raises in a transform or evaluate pass, no
\* later node's step has run, and a transform of any valid input from then
\* on ends and returns as it would have before that pass.
AbortedPassLeavesNoTrace ==
    PassAborted =>
      /\ \A n \in Range(nodes.transformation) \cup nodes.metric :
            n \notin Range(ran) => produced[n] = None /\ output[n] = before.output[n]
      /\ learned = before.learned
      /\ \A data \in [Range(inputs) -> Arrays] :
            run_transform(inbound, Heap, inputs, outputs, nodes.transformation, data)
          = run_transform(inbound, before, inputs, outputs, nodes.transformation, data)

\* the first half alone: the pass stopped at the node that raised
AbortedPassStopsAtTheFailingNode ==
    PassAborted =>
      /\ \A n \in Range(nodes.transformation) \cup nodes.metric :
            n \notin Range(ran) => produced[n] = None /\ output[n] = before.output[n]
      /\ learned = before.learned

\* the nodes node n depends on, n itself left out
Ancestors(n) == BackReach(inbound, {n}) \ {n}

\* C17: for every batch pulled while fit_generator fits node n, the nodes
\* loaded are the Input nodes among the ancestors of n and the nodes
\* transformed are the Transformation nodes among them: not n itself, not a
\* node after n, not a node of another branch.
GeneratorFitFeedsAncestorsOnly ==
    (status = "built" /\ op = "fit_generator" /\ log.node # 0) =>
      /\ Range(log.loaded) = {j \in Ancestors(log.node) : role[j] = "Input"}
      /\ Range(log.transformed) =
            {j \in Ancestors(log.node) : IsTransformation(role[j])}

\* C18: in every evaluate pass, when the Metric nodes are run, each inbound
\* node of a Metric node still to run holds the output it was given in that
\* pass.
MetricInputsArePopulated ==
    (status = "built" /\ op = "evaluate" /\ pc = "metrics") =>
      \A m \in pending : \A j \in Range(inbound[m]) :
         output[j] # None /\ output[j] = produced[j]

\* the same for the first pass made on a Pipeline
MetricInputsArePopulatedInFirstPass ==
    passes = 1 => MetricInputsArePopulated

\* a transform pass without keep_data has returned
TransformReturned ==
    /\ status = "built" /\ pc = "idle" /\ op = "transform" /\ outcome = "ok"
    /\ ~keep_data

FitGeneratorEndsWithTheBatches ==
    (status = "built" /\ op = "fit_generator" /\ input_generator = 0) =>
       pc # "spin"

=============================================================================
